---- MODULE Spec2Model ----
(***************************************************************************)
(* StockChain: the ledger engine (server/blockchain.py) and the request    *)
(* dispatcher (server/server.py).                                          *)
(*                                                                         *)
(* Python positions are 0-based, TLA+ sequences 1-based: chain[i + 1] is   *)
(* the block at Python position i.  A SHA-256 digest is modelled as the    *)
(* tuple of the fields it is computed over (an injective, collision-free   *)
(* digest).  A hash-valued field is a tuple: <<"0">> is the string '0',    *)
(* <<"">> the empty string, <<>> Python's None.                            *)
(***************************************************************************)
EXTENDS Integers, Sequences, FiniteSets, TLC

\* ------------------------------------------------------------- bounds
MaxChain == 3
MaxTx == 2
LongChain == 12
MaxTime == 1
NumSessions == 2
ConcReq == 1
SeqReq == 4
MaxLastProof == 10

\* ---------------------------------------------------------- constants
GenesisProof == 100
DotCode == 46
ZeroCode == 48

VARIABLES
    up,                     \* the Blockchain object has been constructed
    chain,                  \* Blockchain.chain
    current_transactions,   \* Blockchain.current_transactions
    store,                  \* blockchain_data: block index of the file name -> file content
    last,                   \* the last engine call: its name, arguments and result
    now,                    \* time.time(), at the resolution of '%Y-%m-%d %H:%M:%S'
    users,                  \* Server.users: username -> id
    users_file,             \* users_data/users.json
    exports,                \* the transactions_*.json files written by copy
    sess                    \* the session threads: position and locals of handle_client

engine == <<up, chain, current_transactions, store, last, now>>
server == <<users, users_file, exports, sess>>
vars == <<up, chain, current_transactions, store, last, now, users, users_file, exports, sess>>

\* ------------------------------------------------------- data model
NoneValue == <<>>
EmptyString == <<"">>
WrongHash == <<"deadbeef">>

GenesisData == [kind |-> "str", text |-> "Genesis Block"]
ListData(items) == [kind |-> "list", items |-> items]

TxBuy == [user_id |-> 1, operation_type |-> "buy", stock_name |-> "AAPL"]
TxSell == [user_id |-> 2, operation_type |-> "sell", stock_name |-> "AAPL"]
TxHold == [user_id |-> 1, operation_type |-> "hold", stock_name |-> "AAPL"]
TxNoStock == [user_id |-> 1, operation_type |-> "buy", stock_name |-> ""]
TxNoType == [user_id |-> 1, stock_name |-> "AAPL"]

\* what a caller can hand to add_transaction
TxInputs == {TxBuy, TxHold, TxNoStock, TxNoType}
\* what a caller can hand to create_block as proof
ProofInputs == {0, 1}

\* ------------------------------------------------------------ hashing
hash(block) ==
    <<"sha256", block.data, block.index, block.previous_hash, block.proof,
      block.timestamp>>

\* the digest taken before the block's data is set
SetHashEarly(block) ==
    [index |-> block.index, timestamp |-> block.timestamp, data |-> block.data,
     previous_hash |-> block.previous_hash, proof |-> block.proof,
     hash |-> hash([block EXCEPT !.data = ListData(<<>>)])]

SetHash(block) ==
    [index |-> block.index, timestamp |-> block.timestamp, data |-> block.data,
     previous_hash |-> block.previous_hash, proof |-> block.proof,
     hash |-> hash(block)]

\* ---------------------------------------------------------- block store
EmptyStore == [i \in {} |-> <<>>]

\* json.dump(block): the members in the dict's insertion order
ToJson(block) ==
    << <<"index", block.index>>, <<"timestamp", block.timestamp>>,
       <<"data", block.data>>, <<"previous_hash", block.previous_hash>>,
       <<"proof", block.proof>>, <<"hash", block.hash>> >>

Member(json, key) ==
    json[CHOOSE k \in DOMAIN json : json[k][1] = key][2]

\* the members read by their place, the hash taken to come before the proof
FromJsonByPlace(json) ==
    [index |-> json[1][2], timestamp |-> json[2][2], data |-> json[3][2],
     hash |-> json[4][2], proof |-> json[5][2], previous_hash |-> json[6][2]]

\* json.load(f): a dict with the members of the file
FromJson(json) ==
    [index |-> Member(json, "index"), timestamp |-> Member(json, "timestamp"),
     data |-> Member(json, "data"), previous_hash |-> Member(json, "previous_hash"),
     proof |-> Member(json, "proof"), hash |-> Member(json, "hash")]

RECURSIVE Digits(_)
Digits(n) ==
    IF n < 10 THEN <<ZeroCode + n>> ELSE Append(Digits(n \div 10), ZeroCode + (n % 10))

\* f"block_{index}.json" without the common prefix "block_" and suffix "json"
FileName(index) == Append(Digits(index), DotCode)

RECURSIVE StrLess(_, _)
StrLess(a, b) ==
    IF b = <<>> THEN FALSE
    ELSE IF a = <<>> THEN TRUE
    ELSE IF Head(a) # Head(b) THEN Head(a) < Head(b)
    ELSE StrLess(Tail(a), Tail(b))

RECURSIVE SortedNames(_)
SortedNames(S) ==
    IF S = {} THEN <<>>
    ELSE LET first == CHOOSE i \in S :
                          \A j \in S \ {i} : StrLess(FileName(i), FileName(j))
         IN  <<first>> \o SortedNames(S \ {first})

save_block_to_json(st, block) ==
    [i \in DOMAIN st \cup {block.index} |->
        IF i = block.index THEN ToJson(block) ELSE st[i]]

\* what a write that raised leaves in the store: open(file_path, 'w') raised
\* and the file is as it was, or json.dump raised after open had emptied it
Truncated == <<>>

WriteOutcomes == {"refused", "cut"}

save_failed(st, block, outcome) ==
    IF outcome = "refused" THEN st
    ELSE [i \in DOMAIN st \cup {block.index} |->
             IF i = block.index THEN Truncated ELSE st[i]]

\* json.load raises on a file that does not hold a whole record
Unreadable(st) == \E i \in DOMAIN st : st[i] = Truncated

load_chain_from_json(st) ==
    LET names == SortedNames(DOMAIN st)
    IN  [k \in 1..Len(names) |-> FromJson(st[names[k]])]

\* ------------------------------------------------------ proof of work
RECURSIVE DigestFrom(_, _)
DigestFrom(h, str) ==
    IF str = <<>> THEN h ELSE DigestFrom((h * 33 + Head(str)) % 256, Tail(str))

\* hashlib.sha256(guess).hexdigest(), scaled down to 8 bits (two hex digits)
Digest(str) == DigestFrom(7, str)

\* guess_hash[:4] == "0000", scaled down to the first hex digit of the two
valid_proof(last_proof, proof) ==
    Digest(Digits(last_proof) \o Digits(proof)) \div 16 = 0

RECURSIVE SearchProof(_, _)
SearchProof(last_proof, proof) ==
    IF valid_proof(last_proof, proof) THEN proof
    ELSE SearchProof(last_proof, proof + 1)

proof_of_work(last_proof) == SearchProof(last_proof, 0)

\* ------------------------------------------------------- ledger engine
last_block(c) == IF Len(c) > 0 THEN c[Len(c)] ELSE NoneValue

\* a genesis block with no proof
GenesisBlockNoProof(ts) ==
    SetHash([index |-> 0, timestamp |-> ts, data |-> GenesisData,
             previous_hash |-> <<"0">>, proof |-> 0])

GenesisBlock(ts) ==
    SetHash([index |-> 0, timestamp |-> ts, data |-> GenesisData,
             previous_hash |-> <<"0">>, proof |-> GenesisProof])

\* the validation without its check of the stock name
is_valid_transaction_type_only(tx) ==
    IF "operation_type" \notin DOMAIN tx THEN FALSE
    ELSE tx.operation_type \in {"buy", "sell"}

is_valid_transaction(tx) ==
    IF "operation_type" \notin DOMAIN tx THEN FALSE
    ELSE IF tx.operation_type \notin {"buy", "sell"} THEN FALSE
    ELSE IF "stock_name" \notin DOMAIN tx \/ tx.stock_name = "" THEN FALSE
    ELSE TRUE

\* `for transaction in data`: the items of a list; a str yields its characters,
\* and 'operation_type' is in none of them
DataIsValid(data) ==
    IF data.kind = "str" THEN data.text = ""
    ELSE \A k \in DOMAIN data.items : is_valid_transaction(data.items[k])

is_valid_chain(c) ==
    \A i \in 2..Len(c) :
        /\ c[i].previous_hash = c[i - 1].hash
        /\ DataIsValid(c[i].data)

\* create_block's precondition: `if not self.is_valid_chain(): raise ValueError`
MayCreateAlways(c) == TRUE

MayCreate(c) == is_valid_chain(c)

\* `previous_hash or calculated_previous_hash`
Falsy(h) == h = NoneValue \/ h = EmptyString

NewBlock(c, pool, proof, previous_hash, ts) ==
    LET lb == last_block(c)
        calculated_previous_hash == IF lb # NoneValue THEN hash(lb) ELSE <<"0">>
    IN  [index |-> Len(c), timestamp |-> ts, data |-> ListData(pool),
         previous_hash |->
             IF Falsy(previous_hash) THEN calculated_previous_hash ELSE previous_hash,
         proof |-> proof]

\* the loop of verify_integrity from position i on, current being the block
\* before it; saved lists the positions it has rewritten and saved
RECURSIVE RepairFrom(_, _, _, _, _)
RepairFrom(c, st, i, current, saved) ==
    IF i > Len(c) THEN [chain |-> c, store |-> st, saved |-> saved]
    ELSE LET block == c[i]
             recalculated == hash(current)
             fixed == SetHash([block EXCEPT !.previous_hash = recalculated])
         IN  IF block.previous_hash # recalculated
             THEN RepairFrom([c EXCEPT ![i] = fixed], save_block_to_json(st, fixed),
                             i + 1, fixed, Append(saved, i))
             ELSE RepairFrom(c, st, i + 1, block, saved)

\* the walk goes on from the block as it was before its repair
RECURSIVE RepairFromStale(_, _, _, _, _)
RepairFromStale(c, st, i, current, saved) ==
    IF i > Len(c) THEN [chain |-> c, store |-> st, saved |-> saved]
    ELSE LET block == c[i]
             recalculated == hash(current)
             fixed == SetHash([block EXCEPT !.previous_hash = recalculated])
         IN  IF block.previous_hash # recalculated
             THEN RepairFromStale([c EXCEPT ![i] = fixed],
                                  save_block_to_json(st, fixed), i + 1, block,
                                  Append(saved, i))
             ELSE RepairFromStale(c, st, i + 1, block, saved)

RepairStale(c, st) == RepairFromStale(c, st, 2, c[1], <<>>)

\* verify_integrity: the chain and the store it leaves
Repair(c, st) == RepairFrom(c, st, 2, c[1], <<>>)

\* verify_integrity answering whether it found the chain intact
VerifyResultChecked(c, st) == Repair(c, st).saved = <<>>

\* verify_integrity: `return True`
VerifyResult(c, st) == TRUE

\* ------------------------------------------------------------ actions
\* Blockchain.__init__
Startup ==
    /\ ~up
    /\ ~Unreadable(store)
    /\ LET loaded == load_chain_from_json(store)
           genesis == GenesisBlock(now)
       IN  IF Len(loaded) = 0
           THEN /\ chain' = <<genesis>>
                /\ store' = save_block_to_json(store, genesis)
           ELSE /\ chain' = loaded
                /\ store' = store
    /\ up' = TRUE
    /\ current_transactions' = <<>>
    /\ last' = [op |-> "__init__"]
    /\ UNCHANGED <<now, users, users_file, exports, sess>>

\* Blockchain() on a store with a file json.load cannot read: the exception
\* leaves the constructor and there is no engine
StartupRaises ==
    /\ ~up
    /\ Unreadable(store)
    /\ last' = [op |-> "__init__", raised |-> TRUE]
    /\ UNCHANGED <<up, chain, current_transactions, store, now, users, users_file,
                   exports, sess>>

\* the process ends: the object is gone, the files stay
Shutdown ==
    /\ up
    /\ up' = FALSE
    /\ chain' = <<>>
    /\ current_transactions' = <<>>
    /\ last' = [op |-> "exit"]
    /\ UNCHANGED <<store, now, users, users_file, exports, sess>>

\* a second of wall-clock time passes
Tick ==
    /\ now < MaxTime
    /\ now' = now + 1
    /\ UNCHANGED <<up, chain, current_transactions, store, last, users, users_file,
                   exports, sess>>

TxCount(c) ==
    LET n[i \in 0..Len(c)] ==
            IF i = 0 THEN 0
            ELSE n[i - 1] + (IF c[i].data.kind = "list" THEN Len(c[i].data.items) ELSE 0)
    IN  n[Len(c)]

\* the transaction put in front of the pool
add_transaction_front(pool, tx) == <<tx>> \o pool

add_transaction(pool, tx) == Append(pool, tx)

AddTransaction(inputs) ==
    /\ up
    /\ TxCount(chain) + Len(current_transactions) < MaxTx
    /\ \E tx \in inputs :
          /\ current_transactions' = add_transaction(current_transactions, tx)
          /\ last' = [op |-> "add_transaction", tx |-> tx,
                      ret |-> last_block(chain).index + 1]
    /\ UNCHANGED <<up, chain, store, now, users, users_file, exports, sess>>

CreateBlock(bound, proofs, hashes) ==
    /\ up
    /\ Len(chain) < bound
    /\ \E proof \in proofs, previous_hash \in hashes \cup {hash(last_block(chain))} :
          IF ~MayCreate(chain)
          THEN /\ last' = [op |-> "create_block", ok |-> FALSE, proof |-> proof,
                           previous_hash |-> previous_hash]
               /\ UNCHANGED <<chain, current_transactions, store>>
          ELSE LET block == SetHash(NewBlock(chain, current_transactions, proof,
                                             previous_hash, now))
               IN  /\ store' = save_block_to_json(store, block)
                   /\ current_transactions' = <<>>
                   /\ chain' = Append(chain, block)
                   /\ last' = [op |-> "create_block", ok |-> TRUE, proof |-> proof,
                               previous_hash |-> previous_hash, ret |-> block]
    /\ UNCHANGED <<up, now, users, users_file, exports, sess>>

\* create_block on a valid chain when the write of save_block_to_json raises:
\* the except clause prints the error and create_block goes on
CreateBlockUnsaved(bound, outcomes) ==
    /\ up
    /\ Len(chain) < bound
    /\ MayCreate(chain)
    /\ \E outcome \in outcomes :
          LET block == SetHash(NewBlock(chain, current_transactions, 0, NoneValue, now))
          IN  /\ store' = save_failed(store, block, outcome)
              /\ current_transactions' = <<>>
              /\ chain' = Append(chain, block)
              /\ last' = [op |-> "create_block", ok |-> TRUE, proof |-> 0,
                          previous_hash |-> NoneValue, ret |-> block,
                          failed |-> outcome,
                          printed |-> <<"Error saving block ", block.index>>]
    /\ UNCHANGED <<up, now, users, users_file, exports, sess>>

\* the search entered with its first candidate 1
ProofCallFromOne(inputs) ==
    /\ up
    /\ \E last_proof \in inputs :
          last' = [op |-> "proof_of_work", last_proof |-> last_proof, proof |-> 1,
                   returned |-> FALSE]
    /\ UNCHANGED <<up, chain, current_transactions, store, now, users, users_file,
                   exports, sess>>

\* proof_of_work entered on the constructed engine: `proof = 0`
ProofCall(inputs) ==
    /\ up
    /\ \E last_proof \in inputs :
          last' = [op |-> "proof_of_work", last_proof |-> last_proof, proof |-> 0,
                   returned |-> FALSE]
    /\ UNCHANGED <<up, chain, current_transactions, store, now, users, users_file,
                   exports, sess>>

\* one test of the while condition of proof_of_work: `proof += 1`, or
\* `return proof`
ProofStep ==
    /\ up
    /\ last.op = "proof_of_work"
    /\ ~last.returned
    /\ IF valid_proof(last.last_proof, last.proof)
       THEN last' = [last EXCEPT !.returned = TRUE]
       ELSE last' = [last EXCEPT !.proof = @ + 1]
    /\ UNCHANGED <<up, chain, current_transactions, store, now, users, users_file,
                   exports, sess>>

\* create_genesis_block called on the constructed engine
CreateGenesisBlock ==
    /\ up
    /\ Len(chain) < MaxChain
    /\ LET genesis == GenesisBlock(now)
       IN  /\ chain' = Append(chain, genesis)
           /\ store' = save_block_to_json(store, genesis)
           /\ last' = [op |-> "create_genesis_block"]
    /\ UNCHANGED <<up, current_transactions, now, users, users_file, exports, sess>>

\* the previous_hash of the block at position k >= 1 is overwritten in memory
Corrupt ==
    /\ up
    /\ \E k \in 2..Len(chain) :
          /\ chain[k].previous_hash # WrongHash
          /\ chain' = [chain EXCEPT ![k].previous_hash = WrongHash]
          /\ last' = [op |-> "corrupt", k |-> k,
                       intact |-> \A i \in 1..Len(chain) :
                                    /\ chain[i].hash = hash(chain[i])
                                    /\ i > 1 => chain[i].previous_hash = chain[i - 1].hash]
    /\ UNCHANGED <<up, current_transactions, store, now, users, users_file, exports,
                   sess>>

\* json of a block file with the member key given another value
WithMember(json, key, value) ==
    [k \in DOMAIN json |-> IF json[k][1] = key THEN <<key, value>> ELSE json[k]]

WrongProof == 1

\* between two runs of the program a block file is edited: its stored hash, or
\* its proof, a field the hash covers; load_chain_from_json reads the files as
\* they are
Tamper ==
    /\ ~up
    /\ \E i \in DOMAIN store :
          /\ store[i] # Truncated
          /\ \/ /\ Member(store[i], "hash") # WrongHash
                /\ store' = [store EXCEPT ![i] = WithMember(@, "hash", WrongHash)]
             \/ /\ Member(store[i], "proof") # WrongProof
                /\ store' = [store EXCEPT ![i] = WithMember(@, "proof", WrongProof)]
          /\ last' = [op |-> "tamper", i |-> i]
    /\ UNCHANGED <<up, chain, current_transactions, now, users, users_file, exports,
                   sess>>

\* is_valid_chain repairing what it finds, as verify_integrity does
IsValidChainRepairing ==
    /\ up
    /\ chain' = Repair(chain, store).chain
    /\ store' = Repair(chain, store).store
    /\ last' = [op |-> "is_valid_chain", ret |-> is_valid_chain(chain)]
    /\ UNCHANGED <<up, current_transactions, now, users, users_file, exports, sess>>

IsValidChain ==
    /\ up
    /\ last' = [op |-> "is_valid_chain", ret |-> is_valid_chain(chain)]
    /\ UNCHANGED <<up, chain, current_transactions, store, now, users, users_file,
                   exports, sess>>

VerifyIntegrity ==
    /\ up
    /\ LET r == Repair(chain, store)
       IN  /\ chain' = r.chain
           /\ store' = r.store
           /\ last' = [op |-> "verify_integrity", ret |-> VerifyResult(chain, store),
                       saved |-> r.saved,
                       again |-> last.op = "verify_integrity"]
    /\ UNCHANGED <<up, current_transactions, now, users, users_file, exports, sess>>

\* ------------------------------------------------- request dispatcher
Sessions == 1..NumSessions

NoUsers == [u \in {} |-> 0]
NoFiles == [f \in {} |-> <<>>]
NoTx == [user_id |-> 0]

\* a session thread blocked in client_socket.recv, its locals dead
Waiting(left, adds, only_adds, resp) ==
    [pc |-> "recv", left |-> left, adds |-> adds, only_adds |-> only_adds,
     resp |-> resp, req |-> <<>>, parts |-> <<>>, client_id |-> 0, tx |-> NoTx,
     last_pos |-> 0, proof |-> 0, previous_hash |-> NoneValue, block |-> NoneValue,
     alias |-> FALSE]

\* the session s back in client_socket.recv after it has sent resp; req keeps
\* the message it has served
Done(s, only_adds, resp) ==
    [Waiting(s.left, s.adds, only_adds, resp) EXCEPT !.req = s.req]

\* the thread of session s ended by an exception
Died(s, only_adds) == [Done(s, only_adds, <<>>) EXCEPT !.pc = "dead"]

\* message.split(' ') of the messages a client can send
CommandInputs ==
    { <<"register", "alice">>, <<"register", "bob">>, <<"register">>,
      <<"add", "alice", "buy", "AAPL">>, <<"add", "bob", "sell", "AAPL">>,
      <<"add", "alice", "hold", "AAPL">>, <<"add", "alice", "buy", "">>,
      <<"add", "alice", "buy">>, <<"add">>,
      <<"copy">>, <<"copy", "alice">>, <<"copy", "alice", "bob">>,
      <<"verify">>, <<"status">> }

Respond(t, resp) ==
    sess' = [sess EXCEPT ![t] = Done(@, @.only_adds, resp)]

\* an exception leaves handle_client: the thread ends, nothing is sent
Raise(t, only_adds) ==
    sess' = [sess EXCEPT ![t] = Died(@, only_adds)]

Goto(t, pc) == sess' = [sess EXCEPT ![t].pc = pc]

\* handle_client: one message received and dispatched
Receive(t, inputs) ==
    /\ sess[t].pc = "recv"
    /\ sess[t].left > 0
    /\ \E parts \in inputs :
          LET s == [sess[t] EXCEPT !.left = @ - 1, !.req = parts, !.parts = parts,
                                   !.resp = <<>>, !.only_adds = FALSE]
          IN  IF parts[1] = "register"
              THEN IF Len(parts) < 2
                   THEN sess' = [sess EXCEPT ![t] = Died(s, FALSE)]
                   ELSE sess' = [sess EXCEPT ![t] = [s EXCEPT !.pc = "register"]]
              ELSE IF parts[1] = "add"
              THEN sess' = [sess EXCEPT ![t] =
                               [s EXCEPT !.pc = "add", !.parts = Tail(parts),
                                         !.only_adds = sess[t].only_adds]]
              ELSE IF parts[1] = "copy"
              THEN sess' = [sess EXCEPT ![t] = [s EXCEPT !.pc = "copy"]]
              ELSE IF parts[1] = "verify"
              THEN sess' = [sess EXCEPT ![t] = [s EXCEPT !.pc = "verify"]]
              ELSE sess' = [sess EXCEPT ![t] = Done(s, FALSE, <<"Unknown command">>)]
    /\ UNCHANGED <<engine, users, users_file, exports>>

\* handle_register without the test `if username in self.users`
RegisterCheckNever(t) ==
    /\ sess[t].pc = "register"
    /\ Goto(t, "register_id")
    /\ UNCHANGED <<engine, users, users_file, exports>>

\* handle_register: `if username in self.users`
RegisterCheck(t) ==
    /\ sess[t].pc = "register"
    /\ IF sess[t].parts[2] \in DOMAIN users
       THEN Respond(t, <<"Username already taken">>)
       ELSE Goto(t, "register_id")
    /\ UNCHANGED <<engine, users, users_file, exports>>

\* client_id = str(len(self.users) + 1)
RegisterId(t) ==
    /\ sess[t].pc = "register_id"
    /\ sess' = [sess EXCEPT ![t].pc = "register_put",
                            ![t].client_id = Cardinality(DOMAIN users) + 1]
    /\ UNCHANGED <<engine, users, users_file, exports>>

\* self.users[username] = client_id; self.save_users(); send
RegisterPut(t) ==
    /\ sess[t].pc = "register_put"
    /\ LET username == sess[t].parts[2]
           put == [u \in DOMAIN users \cup {username} |->
                      IF u = username THEN sess[t].client_id ELSE users[u]]
       IN  /\ users' = put
           /\ users_file' = put
    /\ Respond(t, <<"Registered with ID: ", sess[t].client_id>>)
    /\ UNCHANGED <<engine, exports>>

\* handle_add_transaction up to the validation of the transaction
AddCheck(t) ==
    /\ sess[t].pc = "add"
    /\ LET parts == sess[t].parts
       IN  IF Len(parts) < 1
           THEN Raise(t, FALSE)
           ELSE IF parts[1] \notin DOMAIN users
           THEN sess' = [sess EXCEPT ![t] =
                            Done(@, FALSE, <<"Username not registered">>)]
           ELSE IF Len(parts) < 3
           THEN Raise(t, FALSE)
           ELSE LET tx == [user_id |-> users[parts[1]], operation_type |-> parts[2],
                           stock_name |-> parts[3]]
                IN  IF ~is_valid_transaction(tx)
                    THEN sess' = [sess EXCEPT ![t] =
                                     Done(@, FALSE,
                                          <<"Invalid transaction. Ensure operation type is \"buy\" or \"sell\".">>)]
                    ELSE sess' = [sess EXCEPT ![t].pc = "add_tx", ![t].tx = tx,
                                              ![t].client_id = users[parts[1]],
                                              ![t].adds = @ + 1]
    /\ UNCHANGED <<engine, users, users_file, exports>>

\* self.blockchain.add_transaction(transaction): the append reaches every block
\* under construction whose data is still the pool's list object
AddTx(t) ==
    /\ sess[t].pc = "add_tx"
    /\ current_transactions' = add_transaction(current_transactions, sess[t].tx)
    /\ sess' = [u \in Sessions |->
                   IF u = t THEN [sess[t] EXCEPT !.pc = "add_last"]
                   ELSE IF sess[u].alias
                   THEN [sess[u] EXCEPT !.block.data.items =
                                            add_transaction(@, sess[t].tx)]
                   ELSE sess[u]]
    /\ UNCHANGED <<up, chain, store, last, now, users, users_file, exports>>

\* last_block = self.blockchain.last_block: a reference to the dict in the chain
AddLast(t) ==
    /\ sess[t].pc = "add_last"
    /\ sess' = [sess EXCEPT ![t].pc = "add_hash", ![t].last_pos = Len(chain)]
    /\ UNCHANGED <<engine, users, users_file, exports>>

\* proof = proof_of_work(last_block['proof']); previous_hash = hash(last_block)
AddHash(t) ==
    /\ sess[t].pc = "add_hash"
    /\ LET lb == chain[sess[t].last_pos]
       IN  sess' = [sess EXCEPT ![t].pc = "cb_valid",
                                ![t].proof = proof_of_work(lb.proof),
                                ![t].previous_hash = hash(lb)]
    /\ UNCHANGED <<engine, users, users_file, exports>>

\* create_block: `if not self.is_valid_chain(): raise ValueError`
CbValid(t) ==
    /\ sess[t].pc = "cb_valid"
    /\ IF ~MayCreate(chain) THEN Raise(t, sess[t].only_adds) ELSE Goto(t, "cb_build")
    /\ UNCHANGED <<engine, users, users_file, exports>>

\* create_block: the block dict is built, its data being the pool's list object
CbBuild(t) ==
    /\ sess[t].pc = "cb_build"
    /\ sess' = [sess EXCEPT ![t].pc = "cb_hash", ![t].alias = TRUE,
                            ![t].block = NewBlock(chain, current_transactions,
                                                  sess[t].proof,
                                                  sess[t].previous_hash, now)]
    /\ UNCHANGED <<engine, users, users_file, exports>>

\* block['hash'] = self.hash(block)
CbHash(t) ==
    /\ sess[t].pc = "cb_hash"
    /\ sess' = [sess EXCEPT ![t].pc = "cb_save", ![t].block = SetHash(@)]
    /\ UNCHANGED <<engine, users, users_file, exports>>

\* self.save_block_to_json(block)
CbSave(t) ==
    /\ sess[t].pc = "cb_save"
    /\ store' = save_block_to_json(store, sess[t].block)
    /\ Goto(t, "cb_clear")
    /\ UNCHANGED <<up, chain, current_transactions, last, now, users, users_file,
                   exports>>

\* create_block without `self.current_transactions = []`
CbKeep(t) ==
    /\ sess[t].pc = "cb_clear"
    /\ sess' = [u \in Sessions |->
                   IF u = t THEN [sess[t] EXCEPT !.pc = "cb_append", !.alias = FALSE]
                   ELSE [sess[u] EXCEPT !.alias = FALSE]]
    /\ UNCHANGED <<up, chain, current_transactions, store, last, now, users,
                   users_file, exports>>

\* self.current_transactions = []: the pool becomes a new list object
CbClear(t) ==
    /\ sess[t].pc = "cb_clear"
    /\ current_transactions' = <<>>
    /\ sess' = [u \in Sessions |->
                   IF u = t THEN [sess[t] EXCEPT !.pc = "cb_append", !.alias = FALSE]
                   ELSE [sess[u] EXCEPT !.alias = FALSE]]
    /\ UNCHANGED <<up, chain, store, last, now, users, users_file, exports>>

\* self.chain.append(block); back in the handler, send 'Transaction added'
CbAppend(t) ==
    /\ sess[t].pc = "cb_append"
    /\ chain' = Append(chain, sess[t].block)
    /\ Respond(t, <<"Transaction added">>)
    /\ UNCHANGED <<up, current_transactions, store, last, now, users, users_file,
                   exports>>

\* handle_verify_integrity; the walk of verify_integrity is taken as one step
Verify(t) ==
    /\ sess[t].pc = "verify"
    /\ LET r == Repair(chain, store)
       IN  /\ chain' = r.chain
           /\ store' = r.store
           /\ last' = [op |-> "verify_integrity", ret |-> VerifyResult(chain, store),
                       saved |-> r.saved,
                       again |-> last.op = "verify_integrity"]
    /\ IF VerifyResult(chain, store)
       THEN Respond(t, <<"The blockchain is valid and has not been altered.">>)
       ELSE Raise(t, FALSE)
    /\ UNCHANGED <<up, current_transactions, now, users, users_file, exports>>

\* copy_user_transactions without the test of the user id
WantedAny(tx, all, client_id) == TRUE

\* the transaction_info entries of copy_user_transactions / copy_all_transactions
\* all: isinstance(transaction, dict); else transaction.get('user_id') == client_id
Wanted(tx, all, client_id) ==
    all \/ ("user_id" \in DOMAIN tx /\ tx.user_id = client_id)

RECURSIVE BlockInfos(_, _, _, _)
BlockInfos(block, items, all, client_id) ==
    IF items = <<>> THEN <<>>
    ELSE (IF Wanted(Head(items), all, client_id)
          THEN << [transaction |-> Head(items),
                   block_info |-> [timestamp |-> block.timestamp,
                                   previous_hash |-> block.previous_hash,
                                   proof |-> block.proof, hash |-> block.hash]] >>
          ELSE <<>>) \o BlockInfos(block, Tail(items), all, client_id)

RECURSIVE ChainInfos(_, _, _)
ChainInfos(c, all, client_id) ==
    IF c = <<>> THEN <<>>
    ELSE (IF Head(c).data.kind = "list"
          THEN BlockInfos(Head(c), Head(c).data.items, all, client_id)
          ELSE <<>>) \o ChainInfos(Tail(c), all, client_id)

WriteFile(files, name, content) ==
    [f \in DOMAIN files \cup {name} |-> IF f = name THEN content ELSE files[f]]

\* handle_copy_transactions
Copy(t) ==
    /\ sess[t].pc = "copy"
    /\ LET parts == sess[t].parts
       IN  IF Len(parts) = 2
           THEN IF parts[2] \notin DOMAIN users
                THEN /\ Respond(t, <<"Username not registered">>)
                     /\ UNCHANGED exports
                ELSE LET client_id == users[parts[2]]
                         user_transactions == ChainInfos(chain, FALSE, client_id)
                     IN  IF user_transactions # <<>>
                         THEN /\ exports' = WriteFile(exports, parts[2],
                                                      user_transactions)
                              /\ Respond(t, <<"Transactions copied for user ",
                                              parts[2]>>)
                         ELSE /\ Respond(t, <<"No transactions found for this user.">>)
                              /\ UNCHANGED exports
           ELSE IF Len(parts) = 1
           THEN LET all_transactions == ChainInfos(chain, TRUE, 0)
                IN  IF all_transactions # <<>>
                    THEN /\ exports' = WriteFile(exports, "all_users", all_transactions)
                         /\ Respond(t, <<"All transactions copied">>)
                    ELSE /\ Respond(t, <<"No transactions found.">>)
                         /\ UNCHANGED exports
           ELSE /\ Respond(t, <<"Invalid copy command. Usage: copy [<username>]">>)
                /\ UNCHANGED exports
    /\ UNCHANGED <<engine, users, users_file>>

\* Server.start: the next connection is accepted and gets a thread of its own
\* (here: in the place of a thread that an exception ended)
Accept(t) ==
    /\ sess[t].pc = "dead"
    /\ Goto(t, "recv")
    /\ UNCHANGED <<engine, users, users_file, exports>>

Step(t) ==
    \/ Accept(t)
    \/ Receive(t, CommandInputs)
    \/ RegisterCheck(t)
    \/ RegisterId(t)
    \/ RegisterPut(t)
    \/ AddCheck(t)
    \/ AddTx(t)
    \/ AddLast(t)
    \/ AddHash(t)
    \/ CbValid(t)
    \/ CbBuild(t)
    \/ CbHash(t)
    \/ CbSave(t)
    \/ CbClear(t)
    \/ CbAppend(t)
    \/ Verify(t)
    \/ Copy(t)

\* ------------------------------------------------------ specifications
\* the engine alone, called directly, before its construction on an empty store
Init ==
    /\ up = FALSE
    /\ chain = <<>>
    /\ current_transactions = <<>>
    /\ store = EmptyStore
    /\ last = [op |-> "none"]
    /\ now = 0
    /\ users = NoUsers
    /\ users_file = NoUsers
    /\ exports = NoFiles
    /\ sess = [t \in Sessions |-> Waiting(0, 0, TRUE, <<>>)]

Next ==
    \/ Startup
    \/ Shutdown
    \/ AddTransaction(TxInputs)
    \/ CreateBlock(MaxChain, ProofInputs, {NoneValue, EmptyString, WrongHash})
    \/ IsValidChain
    \/ VerifyIntegrity
    \/ Tick

Spec == Init /\ [][Next]_vars

\* the engine alone, called with the dispatcher's arguments, for long chains
NextLong ==
    \/ Startup
    \/ Shutdown
    \/ AddTransaction({TxBuy})
    \/ CreateBlock(LongChain, {0}, {NoneValue})
    \/ IsValidChain
    \/ VerifyIntegrity
    \/ Tick

SpecLong == Init /\ [][NextLong]_vars

\* the proof search alone, step by step, for the proof of the genesis block
\* and every last proof up to MaxLastProof
NextProof ==
    \/ Startup
    \/ ProofCall((0..MaxLastProof) \cup {GenesisProof})
    \/ ProofStep

SpecProof == Init /\ [][NextProof]_vars

\* the engine alone on a store whose writes can fail
NextFail ==
    \/ Startup
    \/ StartupRaises
    \/ Shutdown
    \/ AddTransaction({TxBuy})
    \/ CreateBlock(MaxChain, {0}, {NoneValue})
    \/ CreateBlockUnsaved(MaxChain, WriteOutcomes)
    \/ IsValidChain
    \/ VerifyIntegrity
    \/ Tick

SpecFail == Init /\ [][NextFail]_vars

\* Server() constructed on an empty store, with the registry users.json holds
ServerInit(registry, budget) ==
    /\ up = TRUE
    /\ chain = <<GenesisBlock(0)>>
    /\ current_transactions = <<>>
    /\ store = save_block_to_json(EmptyStore, GenesisBlock(0))
    /\ last = [op |-> "__init__"]
    /\ now = 0
    /\ users = registry
    /\ users_file = registry
    /\ exports = NoFiles
    /\ sess = [t \in Sessions |-> Waiting(budget[t], 0, TRUE, <<>>)]

\* one client session: the commands are served one after the other
InitServer == ServerInit(NoUsers, [t \in Sessions |-> IF t = 1 THEN SeqReq ELSE 0])

NextServer == Step(1) \/ Tick

SpecServer == InitServer /\ [][NextServer]_vars

\* concurrent client sessions, one thread each (Server.start), no lock
Registered == [u \in {"alice", "bob"} |-> IF u = "alice" THEN 1 ELSE 2]

InitConc == \E registry \in {NoUsers, Registered} :
                ServerInit(registry, [t \in Sessions |-> ConcReq])

NextConc == \E t \in Sessions : Step(t)

SpecConc == InitConc /\ [][NextConc]_vars

\* the server object with the methods of its engine called directly, among
\* them create_genesis_block, with blocks overwritten in memory, and with one
\* session that sends `verify`
InitRepair == ServerInit(Registered, [t \in Sessions |-> IF t = 1 THEN SeqReq ELSE 0])

NextRepair ==
    \/ AddTransaction({TxBuy, TxHold})
    \/ CreateBlock(MaxChain, {0}, {NoneValue})
    \/ CreateGenesisBlock
    \/ Corrupt
    \/ IsValidChain
    \/ VerifyIntegrity
    \/ Receive(1, {<<"verify">>})
    \/ Verify(1)

SpecRepair == InitRepair /\ [][NextRepair]_vars

\* concurrent sessions of registered users that send valid `add` requests
\* only, session 1 one request more than the others; every thread that can
\* take a step is scheduled in the end
AddInputs == { <<"add", "alice", "buy", "AAPL">>, <<"add", "bob", "sell", "AAPL">> }

StepAdd(t) ==
    \/ Accept(t)
    \/ Receive(t, AddInputs)
    \/ AddCheck(t)
    \/ AddTx(t)
    \/ AddLast(t)
    \/ AddHash(t)
    \/ CbValid(t)
    \/ CbBuild(t)
    \/ CbHash(t)
    \/ CbSave(t)
    \/ CbClear(t)
    \/ CbAppend(t)

InitAdd == ServerInit(Registered,
                      [t \in Sessions |-> IF t = 1 THEN ConcReq + 1 ELSE ConcReq])

NextAdd == \E t \in Sessions : StepAdd(t)

SpecAdd == InitAdd /\ [][NextAdd]_vars /\ \A t \in Sessions : WF_vars(StepAdd(t))

\* one session that sends `copy` requests while transactions are pooled and
\* blocks created by calls of the engine
CopyInputs ==
    { <<"copy">>, <<"copy", "alice">>, <<"copy", "bob">>, <<"copy", "carol">>,
      <<"copy", "alice", "bob">> }

InitCopy == ServerInit(Registered, [t \in Sessions |-> IF t = 1 THEN SeqReq ELSE 0])

NextCopy ==
    \/ AddTransaction({TxBuy, TxSell})
    \/ CreateBlock(MaxChain, {0}, {NoneValue})
    \/ Receive(1, CopyInputs)
    \/ Copy(1)

SpecCopy == InitCopy /\ [][NextCopy]_vars

\* the engine over a store whose files are edited between runs
NextTamper ==
    \/ Startup
    \/ Shutdown
    \/ AddTransaction({TxBuy})
    \/ CreateBlock(MaxChain, {0}, {NoneValue})
    \/ Tamper
    \/ IsValidChain
    \/ VerifyIntegrity

SpecTamper == Init /\ [][NextTamper]_vars

\* ------------------------------------------------------------- claims
\* the step is a call of the engine operation `op`: a Tick and the receipt of a
\* request leave `last` alone
Called(op) ==
    /\ last'.op = op
    /\ now' = now
    /\ \A t \in Sessions : sess'[t].left = sess[t].left

\* the transaction invariant of the data model
TxInvariant(tx) ==
    /\ "operation_type" \in DOMAIN tx
    /\ tx.operation_type \in {"buy", "sell"}
    /\ "stock_name" \in DOMAIN tx
    /\ tx.stock_name # ""

IndexInvariant == \A i \in 1..Len(chain) : chain[i].index = i - 1

LinkageInvariant == \A i \in 2..Len(chain) : chain[i].previous_hash = chain[i - 1].hash

Quiet == \A t \in Sessions : sess[t].pc \in {"recv", "dead"}

AddsAccepted ==
    LET n[t \in 0..NumSessions] == IF t = 0 THEN 0 ELSE n[t - 1] + sess[t].adds
    IN  n[NumSessions]

\* C1: when N >= 1 concurrent `add` requests of registered users with valid
\* transactions (and no other request) have been served on a fresh chain, the
\* chain has exactly N blocks after genesis, chain[i].index = i at every
\* position and every previous_hash is the hash of the block before.
C1_ConcurrentAdds ==
    (Quiet /\ AddsAccepted >= 1 /\ \A t \in Sessions : sess[t].only_adds)
        => /\ Len(chain) = 1 + AddsAccepted
           /\ IndexInvariant
           /\ LinkageInvariant

\* the session is between the first and the last ledger access of its `add`:
\* its transaction is in the pool, its block is not yet appended
InLedgerOperation(t) ==
    sess[t].pc \in {"add_last", "add_hash", "cb_valid", "cb_build", "cb_hash",
                    "cb_save", "cb_clear", "cb_append"}

\* C2: mutual exclusion: at most one session at a time is inside a logical
\* ledger operation, so that no other session's access of the chain or the pool
\* falls between the steps of an `add`.
C2_MutualExclusion == Cardinality({t \in Sessions : InLedgerOperation(t)}) <= 1

\* C3: after every successful create_block(proof, previous_hash), whatever the
\* previous_hash argument, the new last block's previous_hash is H(the block
\* that was last before the call) and the pool is empty.
C3_CreateBlockLinks ==
    [][(Called("create_block") /\ last'.ok)
          => /\ chain'[Len(chain')].previous_hash = hash(chain[Len(chain)])
             /\ current_transactions' = <<>>]_vars

\* C4: create_block called while is_valid_chain() is false fails and leaves the
\* chain, the pool and the block store exactly as they were.
C4_InvalidChainCreatesNothing ==
    [][(Called("create_block") /\ ~is_valid_chain(chain))
          => /\ ~last'.ok
             /\ chain' = chain
             /\ current_transactions' = current_transactions
             /\ store' = store]_vars

C4_Witness ==
    /\ last.op = "create_block"
    /\ ~last.ok
    /\ ~is_valid_chain(chain)
    /\ Len(current_transactions) > 0

\* C5: no transaction violating the transaction invariant is ever in the pool.
C5_PoolHoldsValidOnly ==
    \A k \in DOMAIN current_transactions : TxInvariant(current_transactions[k])

\* C6: index invariant: chain[i].index = i at every position of the chain, in
\* every state the engine operations reach from an empty store.
C6_IndexInvariant == IndexInvariant

\* C7: linkage invariant under sequential dispatcher commands: every
\* previous_hash is the stored hash of the block before, and is_valid_chain()
\* holds, so the next `add` can create its block.
C7_LinkageInvariant == LinkageInvariant /\ is_valid_chain(chain)

C7_Witness ==
    /\ Len(chain) >= 3
    /\ sess[1].pc = "recv"
    /\ sess[1].resp = <<"Transaction added">>

\* C8: construction on an empty store yields exactly the genesis block (index 0,
\* data 'Genesis Block', previous_hash '0', proof 100), saved as record 0, and
\* an empty pool; on a non-empty store the chain is exactly the loaded blocks,
\* nothing is synthesized and nothing is written.
C8_Startup ==
    [][(~up /\ up')
          => /\ current_transactions' = <<>>
             /\ IF DOMAIN store = {}
                THEN /\ Len(chain') = 1
                     /\ chain'[1].index = 0
                     /\ chain'[1].data = [kind |-> "str", text |-> "Genesis Block"]
                     /\ chain'[1].previous_hash = <<"0">>
                     /\ chain'[1].proof = 100
                     /\ DOMAIN store' = {0}
                     /\ FromJson(store'[0]) = chain'[1]
                ELSE /\ Len(chain') = Cardinality(DOMAIN store)
                     /\ {chain'[i] : i \in 1..Len(chain')}
                            = {FromJson(store[k]) : k \in DOMAIN store}
                     /\ store' = store]_vars

C8_Witness ==
    /\ up
    /\ last.op = "__init__"
    /\ Len(chain) >= 2
    /\ chain[1].proof = 100

\* C9: a successful create_block appends exactly one block: the returned block
\* is the new last block, its index is the chain length before the call and
\* the previous last block's index + 1, its proof the given proof, its data the
\* pool at the call.
C9_CreateBlockAppends ==
    [][(Called("create_block") /\ last'.ok)
          => /\ Len(chain') = Len(chain) + 1
             /\ last'.ret = chain'[Len(chain')]
             /\ SubSeq(chain', 1, Len(chain)) = chain
             /\ last'.ret.index = Len(chain)
             /\ last'.ret.index = chain[Len(chain)].index + 1
             /\ last'.ret.proof = last'.proof
             /\ last'.ret.data = [kind |-> "list", items |-> current_transactions]]_vars

\* C10: add_transaction of a valid transaction appends it at the end of the
\* pool and leaves the chain and the block store alone.
C10_AddTransactionFrame ==
    [][(Called("add_transaction") /\ TxInvariant(last'.tx))
          => /\ current_transactions' = current_transactions \o <<last'.tx>>
             /\ chain' = chain
             /\ store' = store]_vars

C10_Witness ==
    /\ last.op = "add_transaction"
    /\ TxInvariant(last.tx)
    /\ Len(current_transactions) = 2
    /\ current_transactions[2] = last.tx
    /\ current_transactions[1] # last.tx

\* the transactions a block's data holds: the genesis marker holds none
TxsOf(block) ==
    IF block.data.kind = "list"
    THEN {block.data.items[j] : j \in 1..Len(block.data.items)}
    ELSE {}

\* C11: the value add_transaction returns is the index of the block the
\* transaction lands in: when the next engine call is a successful
\* create_block, the created block has exactly that index and holds the
\* transaction.
C11_ReturnedIndexIsBlockIndex ==
    [][(last.op = "add_transaction" /\ Called("create_block") /\ last'.ok)
          => /\ last'.ret.index = last.ret
             /\ last.tx \in TxsOf(last'.ret)]_vars

\* C12: is_valid_chain returns true if and only if every block after the
\* first names the stored hash of the block before it and every transaction
\* in every block's data satisfies the transaction invariant.
C12_IsValidChainIff ==
    [][Called("is_valid_chain")
          => (last'.ret <=> /\ LinkageInvariant
                            /\ \A i \in 1..Len(chain) :
                                  \A tx \in TxsOf(chain[i]) : TxInvariant(tx))]_vars

\* C13: is_valid_chain only reads: whatever the chain holds and whatever it
\* returns, it leaves the chain, the pool and the block store as they were,
\* and a call directly after another returns what the first returned.
C13_IsValidChainReadOnly ==
    [][Called("is_valid_chain")
          => /\ chain' = chain
             /\ current_transactions' = current_transactions
             /\ store' = store
             /\ (last.op = "is_valid_chain" => last'.ret = last.ret)]_vars

C13_Witness ==
    /\ last.op = "is_valid_chain"
    /\ ~last.ret
    /\ ~LinkageInvariant
    /\ current_transactions # <<>>

\* C14: on a chain whose every stored hash is the hash of its block and whose
\* every link is right, after the previous_hash of one block k >= 1 is
\* overwritten with a wrong value, verify_integrity rewrites it to the hash of
\* the block before, recomputes the hash of block k, and is_valid_chain then
\* returns true.
C14_RepairScenario ==
    [][(last.op = "corrupt" /\ last.intact /\ Called("verify_integrity"))
          => /\ chain'[last.k].previous_hash = hash(chain'[last.k - 1])
             /\ chain'[last.k].hash = hash(chain'[last.k])
             /\ is_valid_chain(chain')]_vars

\* C15: verify_integrity is idempotent: whatever the chain holds, a second
\* call directly after a first changes no block and saves no record.
C15_VerifyIdempotent ==
    [][(last.op = "verify_integrity" /\ Called("verify_integrity"))
          => /\ chain' = chain
             /\ store' = store
             /\ last'.saved = <<>>]_vars

\* a second call has followed a first on a chain of three blocks that holds
\* a relinked second genesis block
C15_Witness ==
    /\ last.op = "verify_integrity"
    /\ last.again
    /\ last.saved = <<>>
    /\ Len(chain) = 3
    /\ \E i \in 2..3 : chain[i].index = 0 /\ chain[i].previous_hash = chain[i - 1].hash

RECURSIVE Committed(_, _)
Committed(c, i) ==
    IF i > Len(c) THEN <<>>
    ELSE (IF c[i].data.kind = "list" THEN c[i].data.items ELSE <<>>)
             \o Committed(c, i + 1)

\* C17: exactly-once commitment: in every interleaving of concurrent `add`
\* requests, once every request is answered 'Transaction added' each accepted
\* transaction is in exactly one block of the chain, and no block holds data
\* other than the data its hash was computed from.
C17_ExactlyOnce ==
    (Quiet /\ AddsAccepted >= 1 /\ \A t \in Sessions : sess[t].only_adds)
        => /\ Len(Committed(chain, 1)) = AddsAccepted
           /\ \A i \in 1..Len(chain) : chain[i].hash = hash(chain[i])

\* the step ends the request session t was serving: the session is back in
\* recv with its response sent, or its thread has ended
Served(t) ==
    /\ sess'[t] # sess[t]
    /\ sess[t].pc # "dead"
    /\ sess'[t].pc \in {"recv", "dead"}

\* C18: every request a session receives is answered with exactly one
\* response string, whatever the command and the number of its arguments,
\* and the session then serves its next request.
C18_EveryRequestAnswered ==
    [][\A t \in Sessions :
          Served(t) => (sess'[t].pc = "recv" /\ sess'[t].resp # <<>>)]_vars

\* an unknown command name, or a known one with the wrong number of arguments
Malformed(req) ==
    \/ req[1] \notin {"register", "add", "copy", "verify"}
    \/ req[1] = "register" /\ Len(req) # 2
    \/ req[1] = "add" /\ Len(req) # 4
    \/ req[1] = "copy" /\ Len(req) > 2
    \/ req[1] = "verify" /\ Len(req) # 1

ErrorResponses ==
    { <<"Unknown command">>,
      <<"Invalid copy command. Usage: copy [<username>]">>,
      <<"Username not registered">>,
      <<"Invalid transaction. Ensure operation type is \"buy\" or \"sell\".">> }

\* C19: an unknown command name, or a known command with the wrong number of
\* arguments, is answered with an error response and leaves the chain, the
\* pool and the block store unchanged.
C19_MalformedReported ==
    [][\A t \in Sessions :
          (Served(t) /\ Malformed(sess'[t].req))
              => /\ sess'[t].resp \in ErrorResponses
                 /\ chain' = chain
                 /\ current_transactions' = current_transactions
                 /\ store' = store]_vars

\* C20: an `add` for an unregistered username is answered 'Username not
\* registered', an `add` of a registered user whose operation type is not
\* buy or sell or whose stock name is empty is answered with the 'Invalid
\* transaction' message, and neither changes the pool, the chain or the block
\* store.
C20_AddRejected ==
    [][\A t \in Sessions :
          LET req == sess'[t].req
              rejected == /\ sess'[t].pc = "recv"
                          /\ chain' = chain
                          /\ current_transactions' = current_transactions
                          /\ store' = store
          IN  /\ (Served(t) /\ req[1] = "add" /\ Len(req) >= 2
                     /\ req[2] \notin DOMAIN users)
                    => (rejected /\ sess'[t].resp = <<"Username not registered">>)
              /\ (Served(t) /\ req[1] = "add" /\ Len(req) = 4
                     /\ req[2] \in DOMAIN users
                     /\ (req[3] \notin {"buy", "sell"} \/ req[4] = ""))
                    => (rejected /\ sess'[t].resp =
                           <<"Invalid transaction. Ensure operation type is \"buy\" or \"sell\".">>)]_vars

\* an `add` with an empty stock name was refused after an `add` had committed
C20_Witness ==
    /\ sess[1].pc = "recv"
    /\ sess[1].req = <<"add", "alice", "buy", "">>
    /\ sess[1].resp = <<"Invalid transaction. Ensure operation type is \"buy\" or \"sell\".">>
    /\ Len(chain) = 2
    /\ current_transactions = <<>>

\* C21: when the write to the block store fails inside create_block, the
\* failure is reported and the mutation in memory is applied completely: the
\* block is appended, the pool is cleared and create_block returns the block;
\* the store then has no record, or the record it had before, for that index.
C21_WriteFailure ==
    [][(Called("create_block") /\ "failed" \in DOMAIN last')
          => /\ last'.ok
             /\ last'.printed = <<"Error saving block ", last'.ret.index>>
             /\ chain' = Append(chain, last'.ret)
             /\ last'.ret.data = ListData(current_transactions)
             /\ current_transactions' = <<>>
             /\ \/ last'.ret.index \notin DOMAIN store'
                \/ /\ last'.ret.index \in DOMAIN store
                   /\ store'[last'.ret.index] = store[last'.ret.index]]_vars

\* C22: round trip: when the engine is stopped after calls of create_block
\* whose writes all succeeded, a new engine loading the same store gets, for
\* every block of the chain, a block equal to it field for field from the
\* record of its index, and the reloaded chain holds exactly the blocks the
\* chain held.
C22_RoundTrip ==
    [][(up /\ ~up')
          => LET loaded == load_chain_from_json(store)
             IN  /\ \A k \in 1..Len(chain) :
                       /\ chain[k].index \in DOMAIN store
                       /\ FromJson(store[chain[k].index]) = chain[k]
                 /\ Len(loaded) = Len(chain)
                 /\ {loaded[k] : k \in 1..Len(loaded)}
                        = {chain[k] : k \in 1..Len(chain)}]_vars

\* an engine has been constructed on a store of three records, one of them a
\* block with a transaction
C22_Witness ==
    /\ last.op = "__init__"
    /\ Len(chain) = 3
    /\ \E k \in 2..3 : chain[k].data.items # <<>>

\* C23: load returns the stored blocks ordered by index for a store of any
\* size: with records block_0 .. block_n the loaded chain has chain[i].index = i
\* at every position, and an empty store yields an empty sequence.
C23_LoadOrdered ==
    /\ (DOMAIN store = {} => load_chain_from_json(store) = <<>>)
    /\ (/\ up
        /\ last.op = "__init__"
        /\ DOMAIN store = 0..(Cardinality(DOMAIN store) - 1))
           => \A i \in 1..Len(chain) : chain[i].index = i - 1

\* C24: create_genesis_block called on a chain that already has a genesis
\* block does not recreate it: the first block stays the same block and no
\* block is added to the chain.
C24_GenesisOnlyOnce ==
    [][(Called("create_genesis_block") /\ Len(chain) >= 1)
          => /\ chain'[1] = chain[1]
             /\ Len(chain') = Len(chain)]_vars

\* C25: proof_of_work(last_proof) returns the smallest non-negative integer p
\* with valid_proof(last_proof, p): the search never passes a valid candidate,
\* and the value it returns is valid, with no smaller non-negative integer
\* valid.
C25_SmallestProof ==
    last.op = "proof_of_work"
        => /\ \A p \in 0..(last.proof - 1) : ~valid_proof(last.last_proof, p)
           /\ last.returned
                 => /\ valid_proof(last.last_proof, last.proof)
                    /\ last.proof = proof_of_work(last.last_proof)

\* the search for the proof after the genesis block has returned after it
\* passed over invalid candidates
C25_Witness ==
    /\ last.op = "proof_of_work"
    /\ last.last_proof = GenesisProof
    /\ last.returned
    /\ last.proof >= 3

\* C26: `register <username>` for a username already in the registry is
\* answered 'Username already taken' and leaves the registry unchanged; for a
\* new username it is answered 'Registered with ID: <id>' and adds exactly the
\* mapping of that username to that id; and no step of any command changes or
\* removes the id of a username that has one.
C26_Register ==
    [][/\ \A t \in Sessions :
             LET req == sess'[t].req
             IN  (Served(t) /\ req[1] = "register" /\ Len(req) >= 2)
                    => IF req[2] \in DOMAIN users
                       THEN /\ sess'[t].resp = <<"Username already taken">>
                            /\ users' = users
                            /\ users_file' = users_file
                       ELSE /\ DOMAIN users' = DOMAIN users \cup {req[2]}
                            /\ users'[req[2]] = Cardinality(DOMAIN users) + 1
                            /\ sess'[t].resp = <<"Registered with ID: ", users'[req[2]]>>
                            /\ users_file' = users'
       /\ \A u \in DOMAIN users : u \in DOMAIN users' /\ users'[u] = users[u]]_vars

\* alice and bob are registered and a further `register alice` was refused
C26_Witness ==
    /\ users = Registered
    /\ sess[1].pc = "recv"
    /\ sess[1].req = <<"register", "alice">>
    /\ sess[1].resp = <<"Username already taken">>

\* the message is an `add` of a registered user with operation type buy or
\* sell and a non-empty stock name
ValidAdd(req) ==
    /\ Len(req) = 4
    /\ req[1] = "add"
    /\ req[2] \in DOMAIN users
    /\ req[3] \in {"buy", "sell"}
    /\ req[4] # ""

\* C27: under fair scheduling of concurrent sessions that start on an empty
\* store, every valid `add` request of a registered user is eventually
\* answered 'Transaction added'; on finite runs: the thread that serves such a
\* request never ends without an answer.
C27_AddNeverDies ==
    \A t \in Sessions : ValidAdd(sess[t].req) => sess[t].pc # "dead"

\* C28: when verify_integrity returns, every block after the first has a
\* previous_hash equal to the hash recomputed over the final content of the
\* block before it, and every block it rewrote has a stored hash equal to the
\* hash of its final content.
C28_VerifyPostcondition ==
    [][Called("verify_integrity")
          => /\ \A i \in 2..Len(chain') :
                   chain'[i].previous_hash = hash(chain'[i - 1])
             /\ \A k \in 1..Len(last'.saved) :
                   chain'[last'.saved[k]].hash = hash(chain'[last'.saved[k]])]_vars

\* verify_integrity has rewritten two blocks in a row, the second checked
\* against the first as rewritten
C28_Witness ==
    /\ last.op = "verify_integrity"
    /\ Len(last.saved) >= 2
    /\ last.saved[2] = last.saved[1] + 1
    /\ \A i \in 2..Len(chain) : chain[i].previous_hash = hash(chain[i - 1])

\* C29: in every state reached from an empty store, in any interleaving of
\* the sessions, every block in the chain has a stored hash equal to the hash
\* of the block without its hash field.
C29_HashInvariant ==
    \A i \in 1..Len(chain) : chain[i].hash = hash(chain[i])

\* session t is inside create_block with its block dict built
Built(s) == s.pc \in {"cb_hash", "cb_save", "cb_clear", "cb_append"}

\* C30: once create_block has built a block, no step other than one of
\* verify_integrity changes a block of the chain, and no step, of an
\* add_transaction of another session in particular, changes the data of a
\* block that create_block has built and not yet appended.
C30_BlockImmutable ==
    [][/\ ~Called("verify_integrity")
             => \A i \in 1..Len(chain) : i <= Len(chain') /\ chain'[i] = chain[i]
       /\ \A t \in Sessions :
             (Built(sess[t]) /\ Built(sess'[t]))
                 => sess'[t].block.data = sess[t].block.data]_vars

\* the transaction handle_add_transaction builds from the message req
TxOf(req) ==
    [user_id |-> users[req[2]], operation_type |-> req[3], stock_name |-> req[4]]

\* C31: in sequential operation from an empty store, whenever the session has
\* completed a request the pending pool is empty, the chain has one block
\* after genesis for each accepted `add`, each of these blocks holds exactly
\* one transaction, and after an answer 'Transaction added' the last block's
\* data is exactly the transaction of that request.
C31_OneBlockPerAdd ==
    Quiet
        => /\ current_transactions = <<>>
           /\ Len(chain) = 1 + AddsAccepted
           /\ \A i \in 2..Len(chain) :
                 chain[i].data.kind = "list" /\ Len(chain[i].data.items) = 1
           /\ sess[1].resp = <<"Transaction added">>
                 => chain[Len(chain)].data = ListData(<<TxOf(sess[1].req)>>)

\* bob's sale was answered 'Transaction added' after an earlier accepted add
C31_Witness ==
    /\ sess[1].pc = "recv"
    /\ sess[1].resp = <<"Transaction added">>
    /\ sess[1].req = <<"add", "bob", "sell", "AAPL">>
    /\ Len(chain) = 3

\* C32: when no write fails, in every state where no operation is in
\* progress, for any interleaving of the sessions, the store holds exactly
\* one record per block of the chain and the record named by index i is the
\* block at position i of the chain.
C32_StoreAgrees ==
    Quiet
        => /\ DOMAIN store = 0..(Len(chain) - 1)
           /\ \A i \in 1..Len(chain) :
                 /\ chain[i].index = i - 1
                 /\ FromJson(store[i - 1]) = chain[i]

\* the committed transactions of the user with id client_id, in chain order
CommittedOf(c, client_id) ==
    LET Mine(tx) == tx.user_id = client_id
    IN  SelectSeq(Committed(c, 1), Mine)

\* C33: `copy` and `copy <username>` never change the chain, the pending pool
\* or the user registry; `copy <username>` for a registered user reports
\* success iff some committed block holds a transaction with that user's id,
\* and then exports exactly those transactions in chain order; without such
\* a transaction, and for an unregistered username ('Username not
\* registered'), it exports nothing.
C33_CopyReadOnly ==
    [][\A t \in Sessions :
          LET req == sess'[t].req
          IN  (Served(t) /\ req[1] = "copy")
                 => /\ chain' = chain
                    /\ current_transactions' = current_transactions
                    /\ users' = users
                    /\ users_file' = users_file
                    /\ store' = store
                    /\ (Len(req) = 2 /\ req[2] \notin DOMAIN users)
                          => /\ sess'[t].resp = <<"Username not registered">>
                             /\ exports' = exports
                    /\ (Len(req) = 2 /\ req[2] \in DOMAIN users)
                          => LET mine == CommittedOf(chain, users[req[2]])
                             IN  IF mine # <<>>
                                 THEN /\ sess'[t].resp =
                                            <<"Transactions copied for user ", req[2]>>
                                      /\ req[2] \in DOMAIN exports'
                                      /\ [k \in DOMAIN exports'[req[2]] |->
                                             exports'[req[2]][k].transaction] = mine
                                 ELSE /\ sess'[t].resp =
                                            <<"No transactions found for this user.">>
                                      /\ exports' = exports]_vars

\* alice's one committed transaction was exported, bob's being committed too
C33_Witness ==
    /\ sess[1].req = <<"copy", "alice">>
    /\ sess[1].resp = <<"Transactions copied for user ", "alice">>
    /\ "alice" \in DOMAIN exports
    /\ Len(exports["alice"]) = 1
    /\ exports["alice"][1].transaction = TxBuy
    /\ Len(Committed(chain, 1)) = 2
    /\ \E i \in 2..Len(chain) : TxSell \in TxsOf(chain[i])

\* C34: in any interleaving of concurrent sessions, every block appended
\* through the `add` command has a proof that is valid against the proof of
\* the block immediately before it in the chain.
C34_ProofAdmission ==
    \A i \in 2..Len(chain) : valid_proof(chain[i - 1].proof, chain[i].proof)

\* C35: after verify_integrity returns, whatever the chain held before the
\* call (a loaded block whose stored hash or whose other fields disagree,
\* block 0 included), is_valid_chain() returns true, so that a following
\* create_block passes its check.
C35_RepairRestoresValidity ==
    [][Called("verify_integrity")
          => (is_valid_chain(chain') /\ MayCreate(chain'))]_vars

\* C36: a transaction whose `add` request failed, create_block having raised
\* because the chain was invalid, does not stay in the pending pool: on the
\* step that ends the request this way the pool does not hold the request's
\* transaction (no other session having sent a request of the same user).
C36_FailedAddDropped ==
    [][\A t \in Sessions :
          (/\ sess[t].pc = "cb_valid"
           /\ sess'[t].pc = "dead"
           /\ \A u \in Sessions \ {t} :
                 sess[u].req = <<>> \/ sess[u].req[2] # sess[t].req[2])
              => \A k \in DOMAIN current_transactions' :
                    current_transactions'[k] # sess[t].tx]_vars

\* C37: in every reachable state, after any interleaving of concurrent
\* `register` requests for different usernames too, no two usernames map to
\* the same id.
C37_UniqueIds ==
    \A u, v \in DOMAIN users : u # v => users[u] # users[v]

\* C38: verify_integrity never changes the length of the chain, the pending
\* pool, block 0, or the index, timestamp, data or proof of any block; it
\* changes only blocks after the first whose previous_hash differed from the
\* hash of the block before them, and the store only in the records of those
\* blocks; on a chain with no such difference it changes nothing and writes
\* nothing to the store.
C38_VerifyFrame ==
    [][Called("verify_integrity")
          => /\ Len(chain') = Len(chain)
             /\ current_transactions' = current_transactions
             /\ chain'[1] = chain[1]
             /\ \A i \in 1..Len(chain) :
                   /\ chain'[i].index = chain[i].index
                   /\ chain'[i].timestamp = chain[i].timestamp
                   /\ chain'[i].data = chain[i].data
                   /\ chain'[i].proof = chain[i].proof
                   /\ chain'[i] # chain[i]
                         => (i >= 2 /\ chain[i].previous_hash # hash(chain'[i - 1]))
             /\ DOMAIN store \subseteq DOMAIN store'
             /\ \A j \in DOMAIN store' :
                   (j \notin DOMAIN store \/ store'[j] # store[j])
                       => \E i \in 2..Len(chain) :
                             /\ chain[i].index = j
                             /\ chain[i].previous_hash # hash(chain'[i - 1])
                             /\ store'[j] = ToJson(chain'[i])
             /\ (\A i \in 2..Len(chain) : chain[i].previous_hash = hash(chain[i - 1]))
                   => (chain' = chain /\ store' = store /\ last'.saved = <<>>)]_vars

\* verify_integrity has rewritten the third block and left the second, whose
\* previous_hash was right, as it was
C38_Witness ==
    /\ last.op = "verify_integrity"
    /\ last.saved = <<3>>
    /\ Len(chain) = 3

====
